---------------------------- MODULE Spec2Model ----------------------------
(***************************************************************************)
(* Verification model of the spacecraft attitude-control notebook          *)
(* kam_SpacecraftDemo-Template.ipynb: the equations of motion f and their  *)
(* linearization get_model, the design cells (K, Wo, L, F), the Controller *)
(* class, and the notebook workflow that runs the cells and the simulator. *)
(*                                                                         *)
(* Numbers.  The design matrices are exact rationals <<n, d>> (d > 0, in   *)
(* lowest terms).  Every entry of B carries the common irrational factor   *)
(* sqrt(2); B is stored as the rational coefficient of sqrt(2), which      *)
(* leaves ranks unchanged.  Torques are integers in N*m, star measurements *)
(* integers in 1/1000 of an image-plane unit, star angles in 1/100 rad.    *)
(***************************************************************************)
EXTENDS Integers, Sequences, FiniteSets, TLC

(***************************************************************************)
(* Exact rational arithmetic                                               *)
(***************************************************************************)
Abs(x) == IF x < 0 THEN -x ELSE x

RECURSIVE Gcd(_, _)
Gcd(a, b) == IF b = 0 THEN a ELSE Gcd(b, a % b)

Norm(n, d) ==
    LET s == IF d < 0 THEN -1 ELSE 1
        g == Gcd(Abs(n), Abs(d))
    IN  IF n = 0 THEN <<0, 1>> ELSE <<(s * n) \div g, (s * d) \div g>>

R(n) == <<n, 1>>
RAdd(x, y) == Norm(x[1] * y[2] + y[1] * x[2], x[2] * y[2])
RNeg(x) == <<-x[1], x[2]>>
RSub(x, y) == RAdd(x, RNeg(y))
RMul(x, y) == Norm(x[1] * y[1], x[2] * y[2])
RDiv(x, y) == Norm(x[1] * y[2], x[2] * y[1])
RIsZero(x) == x[1] = 0

(***************************************************************************)
(* Matrices: a matrix is a sequence of rows, a row a sequence of rationals *)
(***************************************************************************)
\* Sum over k' = 1..k of X[i][k'] * Y[k'][j]
RECURSIVE DotRC(_, _, _, _, _)
DotRC(X, i, Y, j, k) ==
    IF k = 0 THEN R(0) ELSE RAdd(DotRC(X, i, Y, j, k - 1), RMul(X[i][k], Y[k][j]))

NRows(X) == Len(X)
NCols(X) == IF Len(X) = 0 THEN 0 ELSE Len(X[1])

\* A function value written as an explicit tuple (evaluated once)
Tuple(s) == s \o << >>

MatMul(X, Y) ==
    Tuple([i \in 1..NRows(X) |->
        Tuple([j \in 1..NCols(Y) |-> DotRC(X, i, Y, j, NCols(X))])])

\* np.block([[X, Y]]): blocks side by side
HStack(X, Y) == Tuple([i \in 1..NRows(X) |-> X[i] \o Y[i]])

\* np.block([[X], [Y]]): blocks on top of each other
VStack(X, Y) == X \o Y

RECURSIVE MatPow(_, _)
MatPow(X, k) ==
    IF k = 0
    THEN Tuple([i \in 1..NRows(X) |->
             Tuple([j \in 1..NRows(X) |-> IF i = j THEN R(1) ELSE R(0)])])
    ELSE MatMul(MatPow(X, k - 1), X)

\* np.linalg.matrix_rank, by Gaussian elimination on exact rationals
RECURSIVE RankFrom(_, _)
RankFrom(rows, col) ==
    IF Len(rows) = 0 \/ col > Len(rows[1]) THEN 0
    ELSE LET piv == {i \in 1..Len(rows) : ~RIsZero(rows[i][col])}
         IN  IF piv = {} THEN RankFrom(rows, col + 1)
             ELSE LET p == CHOOSE i \in piv : \A j \in piv : i <= j
                      prow == rows[p]
                      Elim(r) == Tuple([c \in 1..Len(r) |->
                                     RSub(r[c], RMul(RDiv(r[col], prow[col]), prow[c]))])
                      rest == Tuple([i \in 1..(Len(rows) - 1) |->
                                  Elim(rows[IF i < p THEN i ELSE i + 1])])
                  IN  1 + RankFrom(rest, col + 1)

matrix_rank(X) == RankFrom(X, 1)

\* X.T
Transpose(X) ==
    Tuple([j \in 1..NCols(X) |-> Tuple([i \in 1..NRows(X) |-> X[i][j]])])

\* X - Y and -X, entry by entry
MatSub(X, Y) ==
    Tuple([i \in 1..NRows(X) |->
        Tuple([j \in 1..NCols(X) |-> RSub(X[i][j], Y[i][j])])])

MatNeg(X) ==
    Tuple([i \in 1..NRows(X) |-> Tuple([j \in 1..NCols(X) |-> RNeg(X[i][j])])])

\* np.zeros((m, n))
zeros(m, n) == Tuple([i \in 1..m |-> Tuple([j \in 1..n |-> R(0)])])


(***************************************************************************)
(* Equations of motion f (cell fc94c423)                                   *)
(***************************************************************************)
\* Mass and moments of inertia of the base and of each wheel
Jxb == 10
Jyb == 10
Jzb == 16
mw == 1
lw == <<11, 10>>

\* lt = lw * sqrt(2) / 2, stored as the coefficient of sqrt(2)
lt == RDiv(lw, R(2))

\* Moments of inertia of spacecraft and wheels together
Jx == RAdd(R(Jxb), RMul(R(4 * mw), RMul(lw, lw)))
Jy == RAdd(R(Jyb), RMul(R(4 * mw), RMul(lw, lw)))
Jz == RAdd(R(Jzb), RMul(R(4 * mw), RMul(lw, lw)))

\* Resultant torque T = T1 + T2 + T3 + T4 as the matrix of its coefficients:
\* TCoef[i][j] is the coefficient (of sqrt(2)) of tau_j in T[i-1]
TCoef ==
    << <<RNeg(lt), lt, R(0), R(0)>>,
       <<R(0), R(0), RNeg(lt), lt>>,
       <<RNeg(lt), RNeg(lt), RNeg(lt), RNeg(lt)>> >>

\* 1 / cos(pi/2) in double precision: np.cos(np.pi / 2) is 6.123e-17, not
\* 0, so the quotient is the finite number 1.633e16.  Huge stands for it,
\* scaled down by 1e12 so that products of two such values stay within
\* the 32-bit integers of TLC.
Huge == 16331

\* sin, cos and tan as the lambdified (numpy) functions compute them,
\* tabulated on the angles at which the model is evaluated.  An angle is
\* counted in quarter turns: 0 is the equilibrium angle of cell bee2f702,
\* 1 is np.pi / 2 and -1 is -np.pi / 2.
Sin(a) == CASE a = 0 -> R(0)
            [] a = 1 -> R(1)
            [] a = -1 -> R(-1)
Cos(a) == CASE a = 0 -> R(1)
            [] a = 1 -> <<1, Huge>>
            [] a = -1 -> <<1, Huge>>
Tan(a) == RDiv(Sin(a), Cos(a))

\* Variant of A_sym in which the yaw rate is taken as
\* (w_y cos(phi) + w_z sin(phi)) / cos(theta)
A_sym_YawSwapped(e) ==
    LET st == Sin(e.theta)  ct == Cos(e.theta)  tt == Tan(e.theta)
        sp == Sin(e.phi)    cp == Cos(e.phi)
        wx == R(e.w_x)      wy == R(e.w_y)      wz == R(e.w_z)
        u  == RAdd(RMul(wy, sp), RMul(wz, cp))   \* w_y sin(phi) + w_z cos(phi)
        v  == RSub(RMul(wy, cp), RMul(wz, sp))   \* w_y cos(phi) - w_z sin(phi)
        Z  == R(0)
    IN  << <<Z, RDiv(RMul(u, st), RMul(ct, ct)), RDiv(v, ct), Z, RDiv(cp, ct), RDiv(sp, ct)>>,
           <<Z, Z, RNeg(u), Z, cp, RNeg(sp)>>,
           <<Z, RMul(u, RAdd(R(1), RMul(tt, tt))), RMul(v, tt), R(1), RMul(sp, tt), RMul(cp, tt)>>,
           <<Z, Z, Z, Z, RMul(RDiv(RSub(Jy, Jz), Jx), wz), RMul(RDiv(RSub(Jy, Jz), Jx), wy)>>,
           <<Z, Z, Z, RMul(RDiv(RSub(Jz, Jx), Jy), wz), Z, RMul(RDiv(RSub(Jz, Jx), Jy), wx)>>,
           <<Z, Z, Z, RMul(RDiv(RSub(Jx, Jy), Jz), wy), RMul(RDiv(RSub(Jx, Jy), Jz), wx), Z>> >>

\* f.jacobian([psi, theta, phi, w_x, w_y, w_z]) of
\*   f = [ (w_y sin(phi) + w_z cos(phi)) / cos(theta),
\*         w_y cos(phi) - w_z sin(phi),
\*         w_x + w_y sin(phi) tan(theta) + w_z cos(phi) tan(theta),
\*         euler[0], euler[1], euler[2] ]
\* evaluated at the point e
A_sym(e) ==
    LET st == Sin(e.theta)  ct == Cos(e.theta)  tt == Tan(e.theta)
        sp == Sin(e.phi)    cp == Cos(e.phi)
        wx == R(e.w_x)      wy == R(e.w_y)      wz == R(e.w_z)
        u  == RAdd(RMul(wy, sp), RMul(wz, cp))   \* w_y sin(phi) + w_z cos(phi)
        v  == RSub(RMul(wy, cp), RMul(wz, sp))   \* w_y cos(phi) - w_z sin(phi)
        Z  == R(0)
    IN  << <<Z, RDiv(RMul(u, st), RMul(ct, ct)), RDiv(v, ct), Z, RDiv(sp, ct), RDiv(cp, ct)>>,
           <<Z, Z, RNeg(u), Z, cp, RNeg(sp)>>,
           <<Z, RMul(u, RAdd(R(1), RMul(tt, tt))), RMul(v, tt), R(1), RMul(sp, tt), RMul(cp, tt)>>,
           <<Z, Z, Z, Z, RMul(RDiv(RSub(Jy, Jz), Jx), wz), RMul(RDiv(RSub(Jy, Jz), Jx), wy)>>,
           <<Z, Z, Z, RMul(RDiv(RSub(Jz, Jx), Jy), wz), Z, RMul(RDiv(RSub(Jz, Jx), Jy), wx)>>,
           <<Z, Z, Z, RMul(RDiv(RSub(Jx, Jy), Jz), wy), RMul(RDiv(RSub(Jx, Jy), Jz), wx), Z>> >>

\* Variant of B_sym in which the wheels exert no torque about the z axis
B_sym_NoZ(e) ==
    LET Z4 == <<R(0), R(0), R(0), R(0)>>
    IN  << Z4, Z4, Z4,
           Tuple([j \in 1..4 |-> RDiv(TCoef[1][j], Jx)]),
           Tuple([j \in 1..4 |-> RDiv(TCoef[2][j], Jy)]),
           Z4 >>

\* f.jacobian([tau_1, tau_2, tau_3, tau_4]) (coefficients of sqrt(2))
B_sym(e) ==
    LET Z4 == <<R(0), R(0), R(0), R(0)>>
    IN  << Z4, Z4, Z4,
           Tuple([j \in 1..4 |-> RDiv(TCoef[1][j], Jx)]),
           Tuple([j \in 1..4 |-> RDiv(TCoef[2][j], Jy)]),
           Tuple([j \in 1..4 |-> RDiv(TCoef[3][j], Jz)]) >>

\* get_model(psi_e, ..., tau_4_e): A and B in numeric form.  The body
\* checks none of its arguments and has no raise statement, and the
\* lambdified arithmetic yields floats without raising, so every call
\* returns: err is "none"
get_model(e) == [A |-> A_sym(e), B |-> B_sym(e), err |-> "none"]

\* The equilibrium of cell bee2f702: every state and every torque zero
ZeroEq ==
    [psi |-> 0, theta |-> 0, phi |-> 0, w_x |-> 0, w_y |-> 0, w_z |-> 0,
     tau_1 |-> 0, tau_2 |-> 0, tau_3 |-> 0, tau_4 |-> 0]

\* Controllability matrix [B, AB, A^2 B, ..., A^(n-1) B] for n states
RECURSIVE CtrbFrom(_, _, _)
CtrbFrom(A, P, k) ==
    IF k = 0 THEN P ELSE HStack(P, CtrbFrom(A, MatMul(A, P), k - 1))

Ctrb(A, B) == CtrbFrom(A, B, NRows(A) - 1)

(***************************************************************************)
(* Sensor model g (cell b1f4a998) and the design cells                     *)
(***************************************************************************)
\* Scope radius r = 0.8 / 2.1
r == <<8, 21>>

\* Jacobian of g with respect to (psi, theta, phi, w_x, w_y, w_z) at zero
\* attitude for a star on the boresight (alpha = delta = 0, star 3):
\*   y = (1/r) * p_star_in_body[1] / p_star_in_body[0],  dy/dpsi   = -1/r
\*   z = (1/r) * p_star_in_body[2] / p_star_in_body[0],  dz/dtheta =  1/r
C_boresight ==
    LET Z == R(0)
    IN  << <<RNeg(RDiv(R(1), r)), Z, Z, Z, Z, Z>>,
           <<Z, RDiv(R(1), r), Z, Z, Z, Z>> >>

\* Wo = np.block([[C], [C @ A], [C @ A @ A]])
Wo_block(C, A) ==
    VStack(C, VStack(MatMul(C, A), MatMul(MatMul(C, A), A)))

\* The sensor model that cell 48d1be2c differentiates: its first statement
\* rebinds g to sym.Matrix([]), a matrix without rows
g_placeholder == << >>

\* The eigenvalue lists of cells 7baa9ae2 (for K) and b10c41a1 (for L)
K_poles == <<-1, -1>>
L_poles == <<-1, -1>>

\* signal.place_poles(A, B, poles): the outcome of its validation of the
\* arguments.  A must be square, B must have as many rows as A, the number
\* of poles must be the order of A, and no pole may be requested more
\* often than rank(B); otherwise ValueError is raised.  The gain matrix
\* itself is not computed here.
place_poles(A, B, poles) ==
    IF NRows(A) # NCols(A) \/ NRows(B) # NRows(A) \/ Len(poles) # NRows(A)
    THEN "ValueError"
    ELSE IF \E i \in 1..Len(poles) :
               Cardinality({j \in 1..Len(poles) : poles[j] = poles[i]})
                   > matrix_rank(B)
         THEN "ValueError"
         ELSE "none"

\* np.block([[A - B @ K, - B @ K], [Z, A - L @ C]]) for a lower-left block
\* Z: the blocks of one row are joined side by side and must have as many
\* rows as each other, the rows are then stacked and must be equally wide.
\* The value is << >> when np.block raises ValueError.
block_F(A, B, C, K, L, Z) ==
    LET top == HStack(MatSub(A, MatMul(B, K)), MatNeg(MatMul(B, K)))
        low == MatSub(A, MatMul(L, C))
    IN  IF NRows(Z) # NRows(low) \/ NCols(Z) + NCols(low) # NCols(top)
        THEN << >>
        ELSE VStack(top, HStack(Z, low))

\* Cell a0ec129c on a design d = [A, B, C, K, L]: the lower-left block is
\* np.zeros((2, 2))
F_cell(d) == block_F(d.A, d.B, d.C, d.K, d.L, zeros(2, 2))

IsUpperTriangular(M) ==
    \A i \in 1..NRows(M) : \A j \in 1..NCols(M) : i > j => RIsZero(M[i][j])

\* linalg.eigvals(M) for an upper triangular M: the diagonal of M
eigvals(M) ==
    CASE IsUpperTriangular(M) -> Tuple([i \in 1..NRows(M) |-> M[i][i]])

\* Some eigenvalue has a non-negative real part
HasUnstablePole(eigs) == \E i \in 1..Len(eigs) : eigs[i][1] >= 0

(***************************************************************************)
(* class Controller (cell bf439d71)                                        *)
(*                                                                         *)
(* An instance is its attribute dictionary, a set of <<name, value>>       *)
(* pairs.  A method sees the instance and the module globals env (the      *)
(* bound names and the simulator's star catalog) and returns both, with    *)
(* the value it returns.                                                   *)
(***************************************************************************)
\* def __init__(self): pass
Controller_init == {}

\* Variants of reset used to test the properties below: one that raises a
\* "running" flag, one that counts its calls
Controller_reset_Flag(self, env) ==
    [self |-> self \cup {<<"running", 1>>}, env |-> env]

Controller_reset_Count(self, env) ==
    [self |-> self \cup {<<"resets", Cardinality(self) + 1>>}, env |-> env]

\* def reset(self): pass
Controller_reset(self, env) == [self |-> self, env |-> env]

\* Variants of run used to test the properties below: feedback on the
\* first star's reading, the same feedback without saturation, an estimate
\* driven by the raw reading, and a run that rebinds a global
Controller_run_Feedback(self, t, star_meas, env) ==
    [self |-> self, env |-> env,
     ret |-> <<IF star_meas[1] < 0 THEN 1 ELSE 0, 0, 0, 0>>]

Controller_run_Unclamped(self, t, star_meas, env) ==
    [self |-> self, env |-> env,
     ret |-> <<(0 - star_meas[1]) \div 100, 0, 0, 0>>]

Controller_run_RawEstimate(self, t, star_meas, env) ==
    [self |-> {<<"xhat", star_meas[1]>>}, env |-> env, ret |-> <<0, 0, 0, 0>>]

Controller_run_Global(self, t, star_meas, env) ==
    [self |-> self, env |-> [env EXCEPT !.names = @ \cup {"K"}],
     ret |-> <<0, 0, 0, 0>>]

\* def run(self, t, star_meas): four torques, each the literal 0.
Controller_run(self, t, star_meas, env) ==
    [self |-> self, env |-> env, ret |-> <<0, 0, 0, 0>>]

(***************************************************************************)
(* The simulator interface (module ae353_spacecraft, imported by the       *)
(* notebook; its values that the notebook prints are taken from there)     *)
(***************************************************************************)
\* simulator.stars as printed by cell 5c15c38f, in 1/100 rad
Catalog ==
    << [alpha |-> -10, delta |-> -15], [alpha |-> 0, delta |-> -15],
       [alpha |-> 10, delta |-> -15],  [alpha |-> 0, delta |-> 0],
       [alpha |-> -10, delta |-> 15],  [alpha |-> 0, delta |-> 15],
       [alpha |-> 10, delta |-> 15] >>

\* g at zero attitude for each star of the catalog, (y_i, z_i) at index
\* 2i, 2i+1, without noise: y = tan(alpha)/r, z = tan(delta)/(r cos(alpha)),
\* rounded to 1/1000
EqMeas ==
    <<-263, -399, 0, -397, 263, -399, 0, 0, -263, 399, 0, 397, 263, 399>>

\* Limits of the simulator: wheel speed (rad/s) and wheel torque (N*m)
v_max == 50
tau_max == 1

\* max_time of the simulator.run call, in seconds
max_time == 5

(***************************************************************************)
(* Bounds of the model                                                     *)
(***************************************************************************)
\* Direct calls of controller.reset / controller.run by a client
MaxCalls == 3
\* Largest time stamp t a client passes to controller.run
MaxT == 1
\* Simulation steps per second of simulated time
TicksPerSecond == 1
\* Largest sensor-noise magnitude added to one measurement (1/1000 units)
MaxNoise == 100

(***************************************************************************)
(* Inputs                                                                  *)
(***************************************************************************)
\* Operating points handed to get_model
EqSet ==
    {ZeroEq,
     [ZeroEq EXCEPT !.w_z = 1],
     [ZeroEq EXCEPT !.w_x = 1, !.w_y = -1],
     [ZeroEq EXCEPT !.tau_1 = 1, !.tau_4 = -1]}

\* Measurement vectors handed to run: the noise-free reading at the zero
\* attitude, that reading with noise on one star, and an all-zero vector
MeasSet ==
    {EqMeas,
     [EqMeas EXCEPT ![1] = @ + MaxNoise, ![2] = @ - MaxNoise],
     [i \in 1..14 |-> 0]}

TimeSet == 0..MaxT

\* Operating points at the kinematic singularity theta_e = +pi/2, -pi/2
SingularEqSet ==
    UNION {{[ZeroEq EXCEPT !.theta = th],
            [ZeroEq EXCEPT !.theta = th, !.w_x = 1],
            [ZeroEq EXCEPT !.theta = th, !.tau_1 = 1, !.tau_4 = -1]} :
           th \in {1, -1}}

\* Designs handed to the stability cells: the 6-state model at the zero
\* equilibrium with zero gains, and two 2-state designs with zero gains (a
\* double integrator and a plant with poles at -1 and -2)
DesignSet ==
    LET C2 == << <<R(1), R(0)>> >>
        B2 == << <<R(0)>>, <<R(1)>> >>
    IN  {[A |-> get_model(ZeroEq).A, B |-> get_model(ZeroEq).B,
          C |-> C_boresight, K |-> zeros(4, 6), L |-> zeros(6, 2)],
         [A |-> << <<R(0), R(1)>>, <<R(0), R(0)>> >>, B |-> B2,
          C |-> C2, K |-> zeros(1, 2), L |-> zeros(2, 1)],
         [A |-> << <<R(-1), R(1)>>, <<R(0), R(-2)>> >>, B |-> B2,
          C |-> C2, K |-> zeros(1, 2), L |-> zeros(2, 1)]}

(***************************************************************************)
(* The notebook: code cells in document order.  A cell is a sequence of    *)
(* statements; a statement reads global names and then binds global names. *)
(***************************************************************************)
Stmt(reads, binds) == [reads |-> reads, binds |-> binds]

Cells ==
    << [id |-> "informed-qatar", syntax_ok |-> TRUE, stmts |->
          <<Stmt({}, {"np", "sym", "linalg", "signal", "plt", "ae353_spacecraft"})>>],
       [id |-> "3b78dbdb", syntax_ok |-> TRUE, stmts |->
          <<Stmt({"ae353_spacecraft"}, {"simulator"})>>],
       [id |-> "5c15c38f", syntax_ok |-> TRUE, stmts |->
          <<Stmt({"simulator"}, {})>>],
       [id |-> "fc94c423", syntax_ok |-> TRUE, stmts |->
          <<Stmt({"sym"}, {"psi", "theta", "phi", "w_x", "w_y", "w_z",
                           "tau_1", "tau_2", "tau_3", "tau_4",
                           "Rz", "Ry", "Rx", "M", "euler", "f"})>>],
       [id |-> "b1f4a998", syntax_ok |-> TRUE, stmts |->
          <<Stmt({"sym", "Rz", "Ry", "Rx"}, {"alpha", "delta", "r", "g"})>>],
       [id |-> "bee2f702", syntax_ok |-> TRUE, stmts |->
          <<Stmt({}, {"psi_e", "theta_e", "phi_e", "w_x_e", "w_y_e", "w_z_e",
                      "tau_1_e", "tau_2_e", "tau_3_e", "tau_4_e"})>>],
       \* def get_model(...): ...   then   print(f'A =\n{A}\n\nB =\n{B}')
       [id |-> "075fe4d6", syntax_ok |-> TRUE, stmts |->
          <<Stmt({}, {"get_model"}), Stmt({"A", "B"}, {})>>],
       \* the continuation line "  .astype(float)" does not parse
       [id |-> "48d1be2c", syntax_ok |-> FALSE, stmts |->
          <<Stmt({"sym"}, {"g"}),
            Stmt({"sym", "g", "psi", "theta", "phi", "w_x", "w_y", "w_z"}, {"C_num"}),
            Stmt({"C_num", "psi_e", "theta_e", "phi_e"}, {"C"}),
            Stmt({"sym", "g", "tau_1", "tau_2", "tau_3", "tau_4"}, {"D_num"}),
            Stmt({"D_num", "psi_e", "theta_e", "phi_e"}, {"D"}),
            Stmt({"C", "D"}, {})>>],
       [id |-> "7baa9ae2", syntax_ok |-> TRUE, stmts |->
          <<Stmt({"signal", "A", "B"}, {"K"}), Stmt({"K"}, {})>>],
       [id |-> "b5a3d9c0", syntax_ok |-> TRUE, stmts |->
          <<Stmt({"np", "C", "A"}, {"Wo"}), Stmt({"Wo"}, {})>>],
       [id |-> "f156c579", syntax_ok |-> TRUE, stmts |->
          <<Stmt({"np", "Wo"}, {})>>],
       [id |-> "b10c41a1", syntax_ok |-> TRUE, stmts |->
          <<Stmt({"signal", "A", "C"}, {"L"}), Stmt({"L"}, {})>>],
       [id |-> "a0ec129c", syntax_ok |-> TRUE, stmts |->
          <<Stmt({"np", "A", "B", "K", "L", "C"}, {"F"}), Stmt({"F"}, {})>>],
       [id |-> "a7ceda3a", syntax_ok |-> TRUE, stmts |->
          <<Stmt({"linalg", "F"}, {})>>],
       [id |-> "bf439d71", syntax_ok |-> TRUE, stmts |->
          <<Stmt({}, {"Controller"})>>],
       [id |-> "1168ff65", syntax_ok |-> TRUE, stmts |->
          <<Stmt({"Controller"}, {"controller"})>>],
       [id |-> "e9fc6510", syntax_ok |-> TRUE, stmts |->
          <<Stmt({"simulator"}, {})>>],
       [id |-> "a41e26a0", syntax_ok |-> TRUE, stmts |->
          <<Stmt({"simulator"}, {})>>],
       [id |-> "d169e3c4", syntax_ok |-> TRUE, stmts |->
          <<Stmt({"controller"}, {})>>],
       [id |-> "8e649e63", syntax_ok |-> TRUE, stmts |->
          <<Stmt({"simulator", "controller"}, {"data"})>> ] >>

\* The design steps: linearization, K, observability check, L, stability check
DesignCells ==
    {"075fe4d6", "48d1be2c", "7baa9ae2", "b5a3d9c0", "f156c579",
     "b10c41a1", "a0ec129c", "a7ceda3a"}

\* What the design steps leave behind when they complete
DesignNames == {"C", "D", "K", "Wo", "L", "F"}

\* Running the statements k.. of a cell in the namespace names: the names
\* bound at the end and the error that stopped the cell ("none" if none)
RECURSIVE ExecStmts(_, _, _)
ExecStmts(stmts, k, names) ==
    IF k > Len(stmts) THEN [ns |-> names, err |-> "none"]
    ELSE IF ~(stmts[k].reads \subseteq names)
         THEN [ns |-> names, err |-> "NameError"]
         ELSE ExecStmts(stmts, k + 1, names \cup stmts[k].binds)

\* A cell is compiled as a whole before any of it runs
ExecCell(cell, names) ==
    IF ~cell.syntax_ok THEN [ns |-> names, err |-> "SyntaxError"]
    ELSE ExecStmts(cell.stmts, 1, names)

(***************************************************************************)
(* State                                                                   *)
(***************************************************************************)
VARIABLES
    pc,          \* index in Cells of the next cell to run
    ns,          \* global names bound in the kernel
    errs,        \* <<cell id, error>> for every cell that raised
    stars,       \* simulator.stars (empty before the simulator exists)
    controller,  \* the object bound to "controller": [made, dict]
    last,        \* the latest call of a Controller method: its name, the
                 \* call before it, its arguments, the instance before
                 \* the call and the torques returned
    nreset,      \* number of controller.reset() calls so far
    nrun,        \* number of controller.run() calls so far
    sim,         \* simulator run state: [phase, tick, wheel, out, calls]
    gm,          \* value returned by the latest get_model call
    wo,          \* value of the latest evaluation of the Wo expression
    ev           \* latest evaluation of a gain or stability cell on a design

vars == <<pc, ns, errs, stars, controller, last, nreset, nrun, sim, gm, wo, ev>>

Zero4 == <<0, 0, 0, 0>>

NoCall ==
    [op |-> "none", prev |-> "none", t |-> 0, meas |-> EqMeas, pre |-> {}, ret |-> Zero4]

SimIdle == [phase |-> "idle", tick |-> 0, wheel |-> Zero4, out |-> FALSE, calls |-> 0]

\* Number of simulation steps after which max_time is reached
MaxTicks == max_time * TicksPerSecond

Env == [names |-> ns, stars |-> stars]

NoDesign == [A |-> << >>, B |-> << >>, C |-> << >>, K |-> << >>, L |-> << >>]

NoEval ==
    [kind |-> "none", poles |-> << >>, order |-> 0, design |-> NoDesign,
     F |-> << >>, eig |-> << >>, outcome |-> "none"]

Init ==
    /\ pc = 1
    /\ ns = {}
    /\ errs = {}
    /\ stars = << >>
    /\ controller = [made |-> FALSE, dict |-> {}]
    /\ last = NoCall
    /\ nreset = 0
    /\ nrun = 0
    /\ sim = SimIdle
    /\ gm = [called |-> FALSE, eq |-> ZeroEq, err |-> "none", A |-> << >>, B |-> << >>]
    /\ wo = [done |-> FALSE, C |-> << >>, A |-> << >>, Wo |-> << >>]
    /\ ev = NoEval

(***************************************************************************)
(* Calls of the Controller methods                                         *)
(***************************************************************************)
\* controller.reset()
DoReset ==
    LET res == Controller_reset(controller.dict, Env)
    IN  /\ controller' = [controller EXCEPT !.dict = res.self]
        /\ ns' = res.env.names
        /\ stars' = res.env.stars
        /\ last' = [op |-> "reset", prev |-> last.op, t |-> 0, meas |-> EqMeas,
                    pre |-> controller.dict, ret |-> Zero4]
        /\ nreset' = nreset + 1
        /\ nrun' = nrun

\* controller.run(t, star_meas); the torques returned are left in last.ret
DoRun(t, star_meas) ==
    LET res == Controller_run(controller.dict, t, star_meas, Env)
    IN  /\ controller' = [controller EXCEPT !.dict = res.self]
        /\ ns' = res.env.names
        /\ stars' = res.env.stars
        /\ last' = [op |-> "run", prev |-> last.op, t |-> t, meas |-> star_meas,
                    pre |-> controller.dict, ret |-> res.ret]
        /\ nrun' = nrun + 1
        /\ nreset' = nreset

\* A client calls controller.reset() on the constructed object
CallReset ==
    /\ controller.made
    /\ sim.phase # "running"
    /\ nreset + nrun < MaxCalls
    /\ DoReset
    /\ UNCHANGED <<pc, errs, sim, gm, wo, ev>>

\* A client calls controller.run(t, star_meas) on the constructed object
CallRun ==
    /\ controller.made
    /\ sim.phase # "running"
    /\ nreset + nrun < MaxCalls
    /\ \E t \in TimeSet, m \in MeasSet : DoRun(t, m)
    /\ UNCHANGED <<pc, errs, sim, gm, wo, ev>>

(***************************************************************************)
(* Running the notebook's cells top to bottom                              *)
(***************************************************************************)
\* Cells whose statement acts on the simulator or on the controller
CallCells == {"3b78dbdb", "1168ff65", "e9fc6510", "a41e26a0", "d169e3c4", "8e649e63"}

\* An ordinary cell, or any cell that raises: its statements run until one
\* raises; the error is shown under the cell and the kernel stays usable
RunPlainCell ==
    /\ pc <= Len(Cells)
    /\ sim.phase # "running"
    /\ Cells[pc].id \notin CallCells \/ ExecCell(Cells[pc], ns).err # "none"
    /\ LET res == ExecCell(Cells[pc], ns)
       IN  /\ ns' = res.ns
           /\ errs' = IF res.err = "none" THEN errs
                      ELSE errs \cup {<<Cells[pc].id, res.err>>}
    /\ pc' = pc + 1
    /\ UNCHANGED <<stars, controller, last, nreset, nrun, sim, gm, wo, ev>>

\* simulator = ae353_spacecraft.Simulator(display=False, seed=None)
RunSimulatorCell ==
    /\ pc <= Len(Cells)
    /\ Cells[pc].id = "3b78dbdb"
    /\ ExecCell(Cells[pc], ns).err = "none"
    /\ ns' = ExecCell(Cells[pc], ns).ns
    /\ stars' = Catalog
    /\ errs' = errs
    /\ pc' = pc + 1
    /\ UNCHANGED <<controller, last, nreset, nrun, sim, gm, wo, ev>>

\* controller = Controller()
RunCreateCell ==
    /\ pc <= Len(Cells)
    /\ Cells[pc].id = "1168ff65"
    /\ ExecCell(Cells[pc], ns).err = "none"
    /\ ns' = ExecCell(Cells[pc], ns).ns
    /\ controller' = [made |-> TRUE, dict |-> Controller_init]
    /\ errs' = errs
    /\ pc' = pc + 1
    /\ UNCHANGED <<stars, last, nreset, nrun, sim, gm, wo, ev>>

\* simulator.reset(orientation=..., angular_velocity=..., scope_noise=0.1)
RunSimResetCell ==
    /\ pc <= Len(Cells)
    /\ Cells[pc].id \in {"e9fc6510", "a41e26a0"}
    /\ ExecCell(Cells[pc], ns).err = "none"
    /\ ns' = ExecCell(Cells[pc], ns).ns
    /\ sim' = SimIdle
    /\ errs' = errs
    /\ pc' = pc + 1
    /\ UNCHANGED <<stars, controller, last, nreset, nrun, gm, wo, ev>>

\* controller.reset()
RunResetCell ==
    /\ pc <= Len(Cells)
    /\ Cells[pc].id = "d169e3c4"
    /\ ExecCell(Cells[pc], ns).err = "none"
    /\ DoReset
    /\ pc' = pc + 1
    /\ UNCHANGED <<errs, sim, gm, wo, ev>>

\* data = simulator.run(controller, max_time=5.0, ...): the call starts
StartRunCell ==
    /\ pc <= Len(Cells)
    /\ Cells[pc].id = "8e649e63"
    /\ sim.phase = "idle"
    /\ ExecCell(Cells[pc], ns).err = "none"
    /\ sim' = [sim EXCEPT !.phase = "running"]
    /\ UNCHANGED <<pc, ns, errs, stars, controller, last, nreset, nrun, gm, wo, ev>>

\* Variant of SimTick whose clock stops one step short of max_time
SimTick_ClockStuck ==
    /\ sim.phase = "running"
    /\ \E m \in MeasSet, leaves \in BOOLEAN :
          /\ DoRun(sim.tick, m)
          /\ LET wheel == [i \in 1..4 |-> sim.wheel[i] + last'.ret[i]]
                 tick  == IF sim.tick + 1 >= MaxTicks THEN sim.tick ELSE sim.tick + 1
                 stop  == \/ leaves
                          \/ \E i \in 1..4 : Abs(wheel[i]) > v_max
                          \/ tick >= MaxTicks
             IN  sim' = [phase |-> IF stop THEN "done" ELSE "running",
                         tick |-> tick, wheel |-> wheel, out |-> leaves,
                         calls |-> sim.calls + 1]
    /\ UNCHANGED <<pc, errs, gm, wo, ev>>

\* One time step of simulator.run: read the star tracker, ask the
\* controller for torques, apply them, advance the time, test for the end
SimTick ==
    /\ sim.phase = "running"
    /\ \E m \in MeasSet, leaves \in BOOLEAN :
          /\ DoRun(sim.tick, m)
          /\ LET wheel == [i \in 1..4 |-> sim.wheel[i] + last'.ret[i]]
                 tick  == sim.tick + 1
                 stop  == \/ leaves
                          \/ \E i \in 1..4 : Abs(wheel[i]) > v_max
                          \/ tick >= MaxTicks
             IN  sim' = [phase |-> IF stop THEN "done" ELSE "running",
                         tick |-> tick, wheel |-> wheel, out |-> leaves,
                         calls |-> sim.calls + 1]
    /\ UNCHANGED <<pc, errs, gm, wo, ev>>

\* simulator.run returns and its value is bound to data
FinishRunCell ==
    /\ pc <= Len(Cells)
    /\ Cells[pc].id = "8e649e63"
    /\ sim.phase = "done"
    /\ ns' = ExecCell(Cells[pc], ns).ns
    /\ pc' = pc + 1
    /\ UNCHANGED <<errs, stars, controller, last, nreset, nrun, sim, gm, wo, ev>>

(***************************************************************************)
(* Evaluating the design functions                                         *)
(***************************************************************************)
\* A call get_model(psi_e, ..., tau_4_e) once the function and f exist
CallGetModel ==
    /\ {"get_model", "f", "sym", "psi", "tau_1"} \subseteq ns
    /\ sim.phase # "running"
    /\ \E e \in EqSet :
          gm' = [called |-> TRUE, eq |-> e, err |-> get_model(e).err,
                 A |-> get_model(e).A, B |-> get_model(e).B]
    /\ UNCHANGED <<pc, ns, errs, stars, controller, last, nreset, nrun, sim, wo, ev>>

\* The expression of cell b5a3d9c0 on a sensor Jacobian C and a matrix A
EvalWo ==
    /\ gm.called
    /\ sim.phase # "running"
    /\ wo' = [done |-> TRUE, C |-> C_boresight, A |-> gm.A,
              Wo |-> Wo_block(C_boresight, gm.A)]
    /\ UNCHANGED <<pc, ns, errs, stars, controller, last, nreset, nrun, sim, gm, ev>>

\* get_model at an operating point on the kinematic singularity
CallGetModelSingular ==
    /\ {"get_model", "f", "sym", "psi", "tau_1"} \subseteq ns
    /\ sim.phase # "running"
    /\ \E e \in SingularEqSet :
          gm' = [called |-> TRUE, eq |-> e, err |-> get_model(e).err,
                 A |-> get_model(e).A, B |-> get_model(e).B]
    /\ UNCHANGED <<pc, ns, errs, stars, controller, last, nreset, nrun, sim, wo, ev>>

\* The statement of cell 7baa9ae2 on the A and B of the latest get_model:
\* K is bound unless place_poles raises
EvalK ==
    /\ gm.called
    /\ sim.phase # "running"
    /\ LET res == place_poles(gm.A, gm.B, K_poles)
       IN  /\ ev' = [ev EXCEPT !.kind = "K", !.poles = K_poles,
                               !.order = NRows(gm.A), !.outcome = res]
           /\ ns' = IF res = "none" THEN ns \cup {"K"} ELSE ns
           /\ errs' = IF res = "none" THEN errs
                      ELSE errs \cup {<<"7baa9ae2", res>>}
    /\ UNCHANGED <<pc, stars, controller, last, nreset, nrun, sim, gm, wo>>

\* The statement of cell b10c41a1 on A.T and C.T: L is bound unless
\* place_poles raises
EvalL ==
    /\ gm.called
    /\ sim.phase # "running"
    /\ LET res == place_poles(Transpose(gm.A), Transpose(C_boresight), L_poles)
       IN  /\ ev' = [ev EXCEPT !.kind = "L", !.poles = L_poles,
                               !.order = NRows(gm.A), !.outcome = res]
           /\ ns' = IF res = "none" THEN ns \cup {"L"} ELSE ns
           /\ errs' = IF res = "none" THEN errs
                      ELSE errs \cup {<<"b10c41a1", res>>}
    /\ UNCHANGED <<pc, stars, controller, last, nreset, nrun, sim, gm, wo>>

\* Cell a0ec129c with A, B, C, K, L bound to a design: F is bound to the
\* block matrix, or np.block raises ValueError and F stays as it was
EvalF ==
    /\ sim.phase # "running"
    /\ \E d \in DesignSet :
          LET F == F_cell(d)
          IN  /\ ev' = [ev EXCEPT !.kind = "F", !.poles = << >>,
                                  !.order = NRows(d.A), !.design = d,
                                  !.F = IF F = << >> THEN @ ELSE F,
                                  !.outcome = IF F = << >> THEN "ValueError"
                                              ELSE "none"]
              /\ ns' = IF F = << >> THEN ns ELSE ns \cup {"F"}
              /\ errs' = IF F = << >> THEN errs \cup {<<"a0ec129c", "ValueError">>}
                         ELSE errs
    /\ UNCHANGED <<pc, stars, controller, last, nreset, nrun, sim, gm, wo>>

\* Cell a7ceda3a, print(linalg.eigvals(F)): NameError while F is unbound,
\* otherwise the eigenvalues of the bound F are printed.  Nothing compares
\* them with zero.
EvalEigvals ==
    /\ sim.phase # "running"
    /\ ev' = [ev EXCEPT !.kind = "eigvals", !.poles = << >>,
                        !.eig = IF "F" \in ns THEN eigvals(ev.F) ELSE << >>,
                        !.outcome = IF "F" \in ns THEN "printed" ELSE "NameError"]
    /\ errs' = IF "F" \in ns THEN errs ELSE errs \cup {<<"a7ceda3a", "NameError">>}
    /\ UNCHANGED <<pc, ns, stars, controller, last, nreset, nrun, sim, gm, wo>>

Next ==
    \/ RunPlainCell
    \/ RunSimulatorCell
    \/ RunCreateCell
    \/ RunSimResetCell
    \/ RunResetCell
    \/ StartRunCell
    \/ SimTick
    \/ FinishRunCell
    \/ CallReset
    \/ CallRun
    \/ CallGetModel
    \/ EvalWo

Spec == Init /\ [][Next]_vars

\* The simulator's loop keeps stepping while the run is on
LiveSpec == Spec /\ WF_vars(SimTick)

(***************************************************************************)
(* The design functions on their own: the kernel after the cells up to    *)
(* the definition of get_model have run, then calls of get_model and      *)
(* evaluations of the design cells on their results                       *)
(***************************************************************************)
\* Names bound and errors shown after the first k cells have run in order
RECURSIVE NamesAfter(_)
NamesAfter(k) ==
    IF k = 0 THEN {} ELSE ExecCell(Cells[k], NamesAfter(k - 1)).ns

ErrsAfter(k) ==
    {<<Cells[i].id, ExecCell(Cells[i], NamesAfter(i - 1)).err>> :
        i \in {j \in 1..k : ExecCell(Cells[j], NamesAfter(j - 1)).err # "none"}}

\* Index in Cells of the cell with a given id
CellIndex(id) == CHOOSE i \in 1..Len(Cells) : Cells[i].id = id

DesignInit ==
    /\ pc = CellIndex("075fe4d6") + 1
    /\ ns = NamesAfter(CellIndex("075fe4d6"))
    /\ errs = ErrsAfter(CellIndex("075fe4d6"))
    /\ stars = Catalog
    /\ controller = [made |-> FALSE, dict |-> {}]
    /\ last = NoCall
    /\ nreset = 0
    /\ nrun = 0
    /\ sim = SimIdle
    /\ gm = [called |-> FALSE, eq |-> ZeroEq, err |-> "none", A |-> << >>, B |-> << >>]
    /\ wo = [done |-> FALSE, C |-> << >>, A |-> << >>, Wo |-> << >>]
    /\ ev = NoEval

DesignNext ==
    \/ CallGetModel
    \/ CallGetModelSingular
    \/ EvalK
    \/ EvalL
    \/ EvalF
    \/ EvalEigvals

DesignSpec == DesignInit /\ [][DesignNext]_vars

(***************************************************************************)
(* Properties                                                              *)
(***************************************************************************)

\* C1: every call of Controller.run returns zero torque for each of the
\* four wheels, after any sequence of reset and run calls, for every time
\* t and every measurement vector.
C1_ZeroTorque == last.op = "run" => last.ret = Zero4

C1_Witness ==
    /\ last.op = "run"
    /\ last.meas # EqMeas
    /\ last.t > 0
    /\ nreset >= 1
    /\ nrun >= 2

\* C2: in every reachable state each of the four torque commands returned
\* by Controller.run lies in [-tau_max, tau_max], whatever the instance
\* holds and whatever the measurements are.
C2_TorqueBounded ==
    last.op = "run" =>
        \A i \in 1..4 : -tau_max <= last.ret[i] /\ last.ret[i] <= tau_max

C2_Witness ==
    /\ last.op = "run"
    /\ last.meas[1] = EqMeas[1] + MaxNoise
    /\ \A i \in 1..4 : -tau_max <= last.ret[i] /\ last.ret[i] <= tau_max

\* C3 as stated: a step is accepted only after a reset, so whenever run
\* has executed as a normal step some reset() came before it.
C3_StepOnlyAfterReset == last.op = "run" => nreset >= 1

\* C3 as amended: the controller has a single state: the instance holds no
\* attribute when fresh, after reset() and after run(), and a run invoked
\* before any reset() executes as a normal step returning the zero torques.
C3_SingleState ==
    /\ controller.dict = Controller_init
    /\ (last.op = "run" /\ nreset = 0) => last.ret = Zero4

C3_Witness == last.op = "run" /\ nreset = 0 /\ controller.made

\* C4: reset() is idempotent and always permitted: after two consecutive
\* reset() calls the controller is in the state the first of them left
\* (last.pre of the second call), however many steps were taken before.
C4_ResetIdempotent ==
    (last.op = "reset" /\ last.prev = "reset") => controller.dict = last.pre

C4_Witness ==
    /\ last.op = "reset"
    /\ last.prev = "reset"
    /\ nrun >= 1
    /\ nreset >= 2

\* C5: the equilibrium is a fixed point: after reset(), a step on the
\* noise-free measurement taken at the equilibrium returns four zero
\* torques and leaves the controller's state as it was, also when such
\* steps follow one another.
C5_EquilibriumFixedPoint ==
    (last.op = "run" /\ nreset >= 1 /\ last.meas = EqMeas /\ last.pre = Controller_init)
        => (last.ret = Zero4 /\ controller.dict = last.pre)

C5_Witness ==
    /\ last.op = "run"
    /\ last.prev = "run"
    /\ last.meas = EqMeas
    /\ nreset >= 1
    /\ nrun >= 2

\* C6: a reset or a step of the controller changes nothing outside the
\* controller: the bound globals (design artifacts, equilibrium values),
\* the star catalog and the values computed by the design functions are
\* the same before and after the call.
C6_Frame ==
    [][(nreset' # nreset \/ nrun' # nrun) =>
          (ns' = ns /\ stars' = stars /\ gm' = gm /\ wo' = wo /\ ev' = ev)]_vars

C6_Witness ==
    /\ nreset >= 1
    /\ nrun >= 2
    /\ stars = Catalog
    /\ "psi_e" \in ns
    /\ gm.called
    /\ wo.done

\* C7: simulator.run is never started unless every design step completed
\* without error: when a run is on or over, no design cell has raised and
\* the design artifacts are bound.
C7_DesignGatesRun ==
    sim.phase \in {"running", "done"} =>
        /\ \A e \in errs : e[1] \notin DesignCells
        /\ DesignNames \subseteq ns

\* C8: a simulation run always terminates, the controller is called once
\* per time increment, the run stops at the latest when max_time is
\* reached, and the controller is not called by the engine after the stop.
C8_RunTerminates ==
    /\ [](sim.phase = "running" => <>(sim.phase = "done"))
    /\ [][sim.phase = "done" => sim'.calls = sim.calls]_vars
    /\ [](sim.calls = sim.tick /\ sim.tick <= MaxTicks)

C8_Witness ==
    /\ sim.phase = "done"
    /\ sim.tick = MaxTicks
    /\ ~sim.out
    /\ sim.calls = MaxTicks

\* C9: for A and B returned by get_model at the zero equilibrium, the
\* controllability matrix [B, AB, A^2 B, A^3 B, A^4 B, A^5 B] has rank 6.
C9_Controllable ==
    (gm.called /\ gm.eq = ZeroEq) => matrix_rank(Ctrb(gm.A, gm.B)) = 6

C9_Witness == gm.called /\ gm.eq = ZeroEq /\ NCols(Ctrb(gm.A, gm.B)) = 24

\* C10: the observability matrix is built by stacking C * A^i for every
\* i from 0 to 5: six block rows C, CA, CA^2, CA^3, CA^4, CA^5.
C10_SixBlockRows ==
    wo.done =>
        /\ NRows(wo.Wo) = 6 * NRows(wo.C)
        /\ \A i \in 0..5 :
              SubSeq(wo.Wo, i * NRows(wo.C) + 1, (i + 1) * NRows(wo.C))
                  = MatMul(wo.C, MatPow(wo.A, i))

\* C11: both gain computations are given exactly 6 target eigenvalues, one
\* per state of the model, all with strictly negative real part: the pole
\* placement for K on (A, B) and the one for L on (A^T, C^T).
C11_SixStablePoles ==
    ev.kind \in {"K", "L"} =>
        /\ ev.order = 6
        /\ Len(ev.poles) = 6
        /\ \A i \in 1..Len(ev.poles) : ev.poles[i] < 0
        /\ ev.outcome = "none"

\* C12: the stability check is a gate: once it has run on a design whose
\* closed-loop matrix F = [[A - BK, -BK], [0, A - LC]] (zero block of the
\* size of A) has an eigenvalue with non-negative real part, the design
\* is rejected as UnstableDesign.
C12_UnstableRejected ==
    (/\ ev.kind = "eigvals"
     /\ LET d == ev.design
            n == NRows(d.A)
        IN  HasUnstablePole(eigvals(block_F(d.A, d.B, d.C, d.K, d.L, zeros(n, n)))))
    => ev.outcome = "UnstableDesign"

\* C13: get_model called with theta_e = +pi/2 or -pi/2 ends in an error
\* and returns no (A, B), whatever the other nine arguments are.
C13_FailsClosed ==
    (gm.called /\ gm.eq.theta \in {1, -1}) =>
        /\ gm.err # "none"
        /\ gm.A = << >>
        /\ gm.B = << >>

\* C14: once the sensor linearization cell has run, C and D exist and the
\* sensor model it differentiated has two rows per star, 2k rows for the
\* k >= 1 stars of the catalog.
C14_TwoRowsPerStar ==
    pc > CellIndex("48d1be2c") =>
        /\ {"C", "D"} \subseteq ns
        /\ Len(stars) >= 1
        /\ NRows(g_placeholder) = 2 * Len(stars)

\* C15: at the zero equilibrium the matrix A returned by get_model has
\* exactly three non-zero entries, each equal to 1: d(yaw rate)/d(w_z),
\* d(pitch rate)/d(w_y) and d(roll rate)/d(w_x), in rows 1, 2, 3 and
\* columns 6, 5, 4; so the three angular-acceleration rows 4..6 and the
\* three Euler-angle columns 1..3 are entirely zero.
C15_ThreeUnitEntries ==
    (gm.called /\ gm.eq = ZeroEq) =>
        /\ NRows(gm.A) = 6
        /\ \A i \in 1..6 :
              /\ Len(gm.A[i]) = 6
              /\ \A j \in 1..6 :
                    gm.A[i][j] =
                        IF <<i, j>> \in {<<1, 6>>, <<2, 5>>, <<3, 4>>}
                        THEN R(1) ELSE R(0)

C15_Witness ==
    /\ gm.called
    /\ gm.eq = ZeroEq
    /\ gm.err = "none"
    /\ gm.A[1][6] = R(1)
    /\ gm.A[2][5] = R(1)
    /\ gm.A[3][4] = R(1)

=============================================================================
